---------------------------- MODULE Spec2Model ----------------------------
(***************************************************************************)
(* Model of bot/core/telegram_bot.py (class TelegramBot): the start-up     *)
(* sequence, the plugin event handler table, message redaction and the     *)
(* respond helper.  Strings are sequences of one-character strings.        *)
(***************************************************************************)
EXTENDS Integers, Sequences, FiniteSets, TLC

(***************************************************************************)
(* Bounds of the model.                                                    *)
(***************************************************************************)
MaxListeners == 2
MaxHooks == 3

(***************************************************************************)
(* Fixed names of the program.                                             *)
(***************************************************************************)
DynCategories == {"callback_query", "inline_query", "message"}
CoreCategories == {"core_command", "conversation"}
AllCategories == DynCategories \cup CoreCategories
MandatoryPlugins == {"Aria2", "GoogleDrive"}
RequiredKeys == {"api_id", "api_hash", "bot_token"}
ConfigKeys == {"api_id", "api_hash", "bot_token", "db_uri"}
CommandGroup == -1
ConversationGroup == 0
DefaultGroup == 0

Op(op, name, raised) == [op |-> op, name |-> name, raised |-> raised]
NoOp == Op("none", "none", "none")

VARIABLES
  config,         \* self.config: key -> string
  store,          \* the _id values of the "sudoers" collection
  plugins,        \* self.plugins (names)
  listeners,      \* self.listeners: number of listeners per event name
  pc,             \* position of start()
  error,          \* the exception start() ended with, "none" otherwise
  clientBuilt,    \* self.client exists
  handlers,       \* the handlers installed on the client
  connectCalls,   \* number of client.start() calls
  connected,      \* client.start() returned
  table,          \* self._plugin_event_handlers
  loaded,         \* self.loaded
  identity,       \* self.user / self.uid / self.owner are set
  sudo_users,     \* self.sudo_users
  start_time_set, \* self.start_time_us is set
  events,         \* lifecycle events handed to dispatch_event, in order
  dispatching,    \* the dispatch_event call start() is awaiting
  lastOp,         \* the operation that made the last step
  lastCalls,      \* the add_handler/remove_handler calls it issued
  redactIn,       \* the text handed to redact_message
  redactOut,      \* the text it returned
  redacted,       \* redact_message has returned
  messages,       \* the texts of the messages the bot has sent, by message id
  lastRespond,    \* the last call of respond and what it did
  idled,          \* run() has called idle()
  disconnect,     \* the flag of idle() its signal handler sets
  pending,        \* the exception run() is propagating, "none" otherwise
  stopCalls,      \* number of self.stop() calls
  stopped,        \* self.stop() returned: the client is disconnected
  loopStops       \* number of self.loop.stop() calls

lifeVars == <<config, store, plugins, pc, error, connectCalls,
              connected, loaded, identity, sudo_users, start_time_set, events,
              dispatching>>
regVars == <<listeners, clientBuilt, handlers, table>>
opVars == <<lastOp, lastCalls>>
ioVars == <<redactIn, redactOut, redacted, messages, lastRespond>>
runVars == <<idled, disconnect, pending, stopCalls, stopped, loopStops>>
vars == <<lifeVars, regVars, opVars, ioVars, runVars>>

(***************************************************************************)
(* The external client's handler list.                                     *)
(***************************************************************************)
\* The handler objects of a category that are still referenced.
UsedHooks(hs, tbl, cat) ==
  {h.hook : h \in {g \in hs : g.cat = cat}} \cup
  {tbl[c].hook : c \in DOMAIN tbl \cap {cat}}

\* A handler object just constructed is distinct from every live one: it is
\* named by its category and the least number no live handler of it bears.
NewHook(hs, tbl, cat) ==
  IF \E n \in 1..MaxHooks : n \notin UsedHooks(hs, tbl, cat)
  THEN CHOOSE n \in 1..MaxHooks :
         /\ n \notin UsedHooks(hs, tbl, cat)
         /\ \A m \in 1..(n - 1) : m \in UsedHooks(hs, tbl, cat)
  ELSE 0

Handler(cat, hook, group) == [cat |-> cat, hook |-> hook, group |-> group]

Call(op, h, ok) == [op |-> op, cat |-> h.cat, hook |-> h.hook, group |-> h.group, ok |-> ok]

\* client.add_handler(handler, group): ok = FALSE is a call that raises.
ClientAddHandler(hs, h, ok) == IF ok THEN hs \cup {h} ELSE hs

\* client.remove_handler(handler, group)
ClientRemoveHandler(hs, h, ok) == IF ok THEN hs \ {h} ELSE hs

Installed(c) == \E h \in handlers : h.cat = c

(***************************************************************************)
(* update_plugin_event, as a function of the registry state               *)
(*   st = [table, handlers, calls, raised]                                 *)
(* ok says whether the client call it may issue returns or raises.         *)
(***************************************************************************)
RegState(tbl, hs) == [table |-> tbl, handlers |-> hs, calls |-> <<>>, raised |-> "none"]

\* name in self.listeners
InListeners(name) == listeners[name] > 0

\* self._plugin_event_handlers[name] = handler_info
TableSet(tbl, name, h) ==
  [c \in DOMAIN tbl \cup {name} |-> IF c = name THEN h ELSE tbl[c]]

\* del self._plugin_event_handlers[name]
TableDel(tbl, name) == [c \in DOMAIN tbl \ {name} |-> tbl[c]]

\* update_plugin_event without the "not already registered" test
update_plugin_event_reinstall(st, name, group, ok) ==
  LET h == Handler(name, NewHook(st.handlers, st.table, name), group) IN
  IF InListeners(name)
  THEN IF ~clientBuilt THEN [st EXCEPT !.raised = "AttributeError"]
       ELSE IF ~ok
       THEN [st EXCEPT !.calls = Append(@, Call("add_handler", h, FALSE)),
                       !.raised = "add_handler"]
       ELSE [st EXCEPT !.calls = Append(@, Call("add_handler", h, TRUE)),
                       !.handlers = ClientAddHandler(@, h, TRUE),
                       !.table = TableSet(@, name, h)]
  ELSE IF name \in DOMAIN st.table /\ clientBuilt /\ ok
  THEN [st EXCEPT !.calls = Append(@, Call("remove_handler", st.table[name], TRUE)),
                  !.handlers = ClientRemoveHandler(@, st.table[name], TRUE),
                  !.table = TableDel(@, name)]
  ELSE st

\* update_plugin_event recording the binding before the client call is made
update_plugin_event_record_first(st, name, group, ok) ==
  LET h == Handler(name, NewHook(st.handlers, st.table, name), group) IN
  IF InListeners(name)
  THEN IF name \in DOMAIN st.table \/ ~clientBuilt THEN st
       ELSE IF ~ok
       THEN [st EXCEPT !.calls = Append(@, Call("add_handler", h, FALSE)),
                       !.table = TableSet(@, name, h),
                       !.raised = "add_handler"]
       ELSE [st EXCEPT !.calls = Append(@, Call("add_handler", h, TRUE)),
                       !.handlers = ClientAddHandler(@, h, TRUE),
                       !.table = TableSet(@, name, h)]
  ELSE IF name \in DOMAIN st.table /\ clientBuilt /\ ok
  THEN [st EXCEPT !.calls = Append(@, Call("remove_handler", st.table[name], TRUE)),
                  !.handlers = ClientRemoveHandler(@, st.table[name], TRUE),
                  !.table = TableDel(@, name)]
  ELSE st

\* update_plugin_event without the del of the binding
update_plugin_event_keep(st, name, group, ok) ==
  LET h == Handler(name, NewHook(st.handlers, st.table, name), group) IN
  IF InListeners(name)
  THEN IF name \in DOMAIN st.table \/ ~clientBuilt \/ ~ok THEN st
       ELSE [st EXCEPT !.calls = Append(@, Call("add_handler", h, TRUE)),
                       !.handlers = ClientAddHandler(@, h, TRUE),
                       !.table = TableSet(@, name, h)]
  ELSE IF name \in DOMAIN st.table /\ clientBuilt /\ ok
  THEN [st EXCEPT !.calls = Append(@, Call("remove_handler", st.table[name], TRUE)),
                  !.handlers = ClientRemoveHandler(@, st.table[name], TRUE)]
  ELSE st

\* update_plugin_event suspended between the client call and the update of
\* the table: the step ends with the call made and the table as it was
update_plugin_event_suspending(st, name, group, ok) ==
  LET h == Handler(name, NewHook(st.handlers, st.table, name), group) IN
  IF InListeners(name)
  THEN IF name \in DOMAIN st.table \/ ~clientBuilt \/ ~ok THEN st
       ELSE [st EXCEPT !.calls = Append(@, Call("add_handler", h, TRUE)),
                       !.handlers = ClientAddHandler(@, h, TRUE)]
  ELSE IF name \in DOMAIN st.table /\ clientBuilt /\ ok
  THEN [st EXCEPT !.calls = Append(@, Call("remove_handler", st.table[name], TRUE)),
                  !.handlers = ClientRemoveHandler(@, st.table[name], TRUE)]
  ELSE st

\* update_plugin_event handing remove_handler a handler object built anew
update_plugin_event_fresh_remove(st, name, group, ok) ==
  LET h == Handler(name, NewHook(st.handlers, st.table, name), group) IN
  IF InListeners(name)
  THEN IF name \in DOMAIN st.table \/ ~clientBuilt \/ ~ok THEN st
       ELSE [st EXCEPT !.calls = Append(@, Call("add_handler", h, TRUE)),
                       !.handlers = ClientAddHandler(@, h, TRUE),
                       !.table = TableSet(@, name, h)]
  ELSE IF name \in DOMAIN st.table /\ clientBuilt /\ ok
  THEN [st EXCEPT !.calls = Append(@, Call("remove_handler", h, TRUE)),
                  !.handlers = ClientRemoveHandler(@, h, TRUE),
                  !.table = TableDel(@, name)]
  ELSE st

update_plugin_event(st, name, group, ok) ==
  IF InListeners(name)
  THEN IF name \notin DOMAIN st.table
       THEN LET h == Handler(name, NewHook(st.handlers, st.table, name), group) IN
            IF ~clientBuilt THEN [st EXCEPT !.raised = "AttributeError"]
            ELSE IF ~ok
            THEN [st EXCEPT !.calls = Append(@, Call("add_handler", h, FALSE)),
                            !.raised = "add_handler"]
            ELSE [st EXCEPT !.calls = Append(@, Call("add_handler", h, TRUE)),
                            !.handlers = ClientAddHandler(@, h, TRUE),
                            !.table = TableSet(@, name, h)]
       ELSE st
  ELSE IF name \in DOMAIN st.table
  THEN LET h == st.table[name] IN
       IF ~clientBuilt THEN [st EXCEPT !.raised = "AttributeError"]
       ELSE IF ~ok \/ h \notin st.handlers
       THEN [st EXCEPT !.calls = Append(@, Call("remove_handler", h, FALSE)),
                       !.raised = "remove_handler"]
       ELSE [st EXCEPT !.calls = Append(@, Call("remove_handler", h, TRUE)),
                       !.handlers = ClientRemoveHandler(@, h, TRUE),
                       !.table = TableDel(@, name)]
  ELSE st

\* The next statement of a sequence runs unless an earlier one raised.
Then(st, name, ok) ==
  IF st.raised # "none" THEN st ELSE update_plugin_event(st, name, DefaultGroup, ok)

\* failing names the category whose client call raises, if it is made.
update_plugin_events(st, failing) ==
  Then(Then(Then(st, "callback_query", failing # "callback_query"),
            "inline_query", failing # "inline_query"),
       "message", failing # "message")

\* events_activated
events_activated == Cardinality(DOMAIN table)

(***************************************************************************)
(* Operations on the registry.                                             *)
(***************************************************************************)
\* The positions of start() at which other code of the bot runs: before
\* start() is called, while plugins load, while start() awaits a dispatch,
\* and while idle() sleeps.
TaskPoints == {"init_client", "dispatch_load", "await_load", "await_start",
               "await_started", "idling"}

\* A plugin listener is registered for an event name.
RegisterListener(name) ==
  /\ pc \in TaskPoints
  /\ listeners[name] < MaxListeners
  /\ listeners' = [listeners EXCEPT ![name] = @ + 1]
  /\ lastOp' = Op("register_listener", name, "none")
  /\ lastCalls' = <<>>
  /\ UNCHANGED <<ioVars, runVars, lifeVars, clientBuilt, handlers, table>>

\* A plugin listener is unregistered.
UnregisterListener(name) ==
  /\ pc \in TaskPoints
  /\ listeners[name] > 0
  /\ listeners' = [listeners EXCEPT ![name] = @ - 1]
  /\ lastOp' = Op("unregister_listener", name, "none")
  /\ lastCalls' = <<>>
  /\ UNCHANGED <<ioVars, runVars, lifeVars, clientBuilt, handlers, table>>

UpdatePluginEvent(name, ok) ==
  \E r \in {update_plugin_event(RegState(table, handlers), name, DefaultGroup, ok)} :
  /\ pc \in TaskPoints
  /\ table' = r.table
  /\ handlers' = r.handlers
  /\ lastOp' = Op("update_plugin_event", name, r.raised)
  /\ lastCalls' = r.calls
  /\ UNCHANGED <<ioVars, runVars, lifeVars, listeners, clientBuilt>>

UpdatePluginEvents(failing) ==
  \E r \in {update_plugin_events(RegState(table, handlers), failing)} :
  /\ pc \in TaskPoints
  /\ table' = r.table
  /\ handlers' = r.handlers
  /\ lastOp' = Op("update_plugin_events", "none", r.raised)
  /\ lastCalls' = r.calls
  /\ UNCHANGED <<ioVars, runVars, lifeVars, listeners, clientBuilt>>

(***************************************************************************)
(* Strings, and redact_message.                                            *)
(***************************************************************************)
Placeholder == <<"[", "R", "E", "D", "A", "C", "T", "E", "D", "]">>

\* text[i:i+len(v)] == v
OccursAt(text, v, i) ==
  /\ i + Len(v) - 1 <= Len(text)
  /\ \A j \in 1..Len(v) : text[i + j - 1] = v[j]

\* v in text
Contains(text, v) == \E i \in 1..(Len(text) + 1) : OccursAt(text, v, i)

\* The first occurrence of v in text at or after position i, 0 when none
NextOccurrence(text, v, i) ==
  IF \E k \in i..Len(text) : OccursAt(text, v, k)
  THEN CHOOSE k \in i..Len(text) :
         OccursAt(text, v, k) /\ \A m \in i..(k - 1) : ~OccursAt(text, v, m)
  ELSE 0

RECURSIVE ReplaceFrom(_, _, _, _)
\* str.replace for a non-empty v: the occurrences found scanning from the
\* left, each search resuming after the occurrence just replaced
ReplaceFrom(text, v, new, i) ==
  IF NextOccurrence(text, v, i) = 0 THEN SubSeq(text, i, Len(text))
  ELSE SubSeq(text, i, NextOccurrence(text, v, i) - 1) \o new \o
       ReplaceFrom(text, v, new, NextOccurrence(text, v, i) + Len(v))

\* str.replace for the empty string: new before every character from
\* position i on and at the end
Interleave(text, new, i) ==
  [j \in 1..((Len(text) - i + 1) * (Len(new) + 1) + Len(new)) |->
     IF (j - 1) % (Len(new) + 1) < Len(new)
     THEN new[((j - 1) % (Len(new) + 1)) + 1]
     ELSE text[i + ((j - 1) \div (Len(new) + 1))]]

\* text.replace(v, new)
StrReplace(text, v, new) ==
  IF Len(v) = 0 THEN Interleave(text, new, 1) ELSE ReplaceFrom(text, v, new, 1)

\* if v in text: text = text.replace(v, "[REDACTED]")
RedactOne(text, v) == IF Contains(text, v) THEN StrReplace(text, v, Placeholder) ELSE text

\* redact_message without the replacement of db_uri
redact_message_no_db_uri(cfg, text) ==
  RedactOne(RedactOne(RedactOne(text, cfg["api_id"]), cfg["api_hash"]), cfg["bot_token"])

\* redact_message replacing the first occurrence only
redact_message_first_only(cfg, text) ==
  LET One(t, v) ==
        IF Contains(t, v) /\ Len(v) > 0
        THEN LET i == CHOOSE k \in 1..Len(t) :
                        OccursAt(t, v, k) /\ \A m \in 1..(k - 1) : ~OccursAt(t, v, m)
             IN SubSeq(t, 1, i - 1) \o Placeholder \o SubSeq(t, i + Len(v), Len(t))
        ELSE RedactOne(t, v)
  IN One(One(One(One(text, cfg["api_id"]), cfg["api_hash"]), cfg["bot_token"]),
         cfg["db_uri"])

redact_message(cfg, text) ==
  RedactOne(RedactOne(RedactOne(RedactOne(text, cfg["api_id"]), cfg["api_hash"]),
                      cfg["bot_token"]),
            cfg["db_uri"])

(***************************************************************************)
(* respond.                                                                *)
(***************************************************************************)
\* The length limit of util.tg.truncate (4096 characters in the program),
\* scaled to the texts of the model so that redaction can exceed it.
TransportLimit == 12
TruncationMark == <<"~">>

\* util.tg.truncate
Truncate(text) ==
  IF Len(text) > TransportLimit
  THEN SubSeq(text, 1, TransportLimit - Len(TruncationMark)) \o TruncationMark
  ELSE text

None == 0

NoRespond == [msg |-> None, text |-> <<>>, mode |-> "none", redact |-> FALSE,
              response |-> None, before |-> 0,
              calls |-> <<>>, result |-> None, raised |-> "none"]

\* What respond does: the client calls it makes, the message it returns or
\* the error it raises, and the messages of the chat afterwards.  ok says
\* whether the client call it makes returns or raises.
\* respond editing the prior response whenever there is one
respond_edit_first(msgs, msg, text, mode, redact, response, ok) ==
  LET t2 == Truncate(IF redact THEN redact_message(config, text) ELSE text)
      r == [msg |-> msg, text |-> text, mode |-> mode, redact |-> redact,
            response |-> response, before |-> Len(msgs),
            calls |-> <<>>, result |-> None, raised |-> "none", messages |-> msgs]
  IN
  IF response # None /\ mode \in {"reply", "edit"}
  THEN [r EXCEPT !.calls = <<[op |-> "edit", target |-> response, text |-> t2]>>,
                 !.messages = IF ok THEN [msgs EXCEPT ![response] = t2] ELSE msgs,
                 !.result = IF ok THEN response ELSE None,
                 !.raised = IF ok THEN "none" ELSE "TransportError"]
  ELSE IF mode \in {"reply", "edit"}
  THEN [r EXCEPT !.calls = <<[op |-> "reply", target |-> msg, text |-> t2]>>,
                 !.messages = IF ok THEN Append(msgs, t2) ELSE msgs,
                 !.result = IF ok THEN Len(msgs) + 1 ELSE None,
                 !.raised = IF ok THEN "none" ELSE "TransportError"]
  ELSE [r EXCEPT !.raised = "ValueError"]

\* respond treating every mode it does not know as "reply"
respond_default_reply(msgs, msg, text, mode, redact, response, ok) ==
  LET t2 == Truncate(IF redact THEN redact_message(config, text) ELSE text)
      r == [msg |-> msg, text |-> text, mode |-> mode, redact |-> redact,
            response |-> response, before |-> Len(msgs),
            calls |-> <<>>, result |-> None, raised |-> "none", messages |-> msgs]
  IN
  IF response # None /\ mode = "edit"
  THEN [r EXCEPT !.calls = <<[op |-> "edit", target |-> response, text |-> t2]>>,
                 !.messages = IF ok THEN [msgs EXCEPT ![response] = t2] ELSE msgs,
                 !.result = IF ok THEN response ELSE None,
                 !.raised = IF ok THEN "none" ELSE "TransportError"]
  ELSE [r EXCEPT !.calls = <<[op |-> "reply", target |-> msg, text |-> t2]>>,
                 !.messages = IF ok THEN Append(msgs, t2) ELSE msgs,
                 !.result = IF ok THEN Len(msgs) + 1 ELSE None,
                 !.raised = IF ok THEN "none" ELSE "TransportError"]

\* respond truncating the text before it redacts it
respond_truncate_first(msgs, msg, text, mode, redact, response, ok) ==
  LET t1 == Truncate(text)
      t2 == IF redact THEN redact_message(config, t1) ELSE t1
      r == [msg |-> msg, text |-> text, mode |-> mode, redact |-> redact,
            response |-> response, before |-> Len(msgs),
            calls |-> <<>>, result |-> None, raised |-> "none", messages |-> msgs]
  IN
  IF mode = "reply" \/ (response = None /\ mode = "edit")
  THEN [r EXCEPT !.calls = <<[op |-> "reply", target |-> msg, text |-> t2]>>,
                 !.messages = IF ok THEN Append(msgs, t2) ELSE msgs,
                 !.result = IF ok THEN Len(msgs) + 1 ELSE None,
                 !.raised = IF ok THEN "none" ELSE "TransportError"]
  ELSE IF response # None /\ mode = "edit"
  THEN [r EXCEPT !.calls = <<[op |-> "edit", target |-> response, text |-> t2]>>,
                 !.messages = IF ok THEN [msgs EXCEPT ![response] = t2] ELSE msgs,
                 !.result = IF ok THEN response ELSE None,
                 !.raised = IF ok THEN "none" ELSE "TransportError"]
  ELSE [r EXCEPT !.raised = "ValueError"]

respond(msgs, msg, text, mode, redact, response, ok) ==
  LET t1 == IF redact THEN redact_message(config, text) ELSE text
      t2 == Truncate(t1)
      r == [msg |-> msg, text |-> text, mode |-> mode, redact |-> redact,
            response |-> response, before |-> Len(msgs),
            calls |-> <<>>, result |-> None, raised |-> "none", messages |-> msgs]
  IN
  IF mode = "reply" \/ (response = None /\ mode = "edit")
  THEN IF ok
       THEN [r EXCEPT !.calls = <<[op |-> "reply", target |-> msg, text |-> t2]>>,
                      !.messages = Append(msgs, t2),
                      !.result = Len(msgs) + 1]
       ELSE [r EXCEPT !.calls = <<[op |-> "reply", target |-> msg, text |-> t2]>>,
                      !.raised = "TransportError"]
  ELSE IF response # None /\ mode = "edit"
  THEN IF ok
       THEN [r EXCEPT !.calls = <<[op |-> "edit", target |-> response, text |-> t2]>>,
                      !.messages = [msgs EXCEPT ![response] = t2],
                      !.result = response]
       ELSE [r EXCEPT !.calls = <<[op |-> "edit", target |-> response, text |-> t2]>>,
                      !.raised = "TransportError"]
  ELSE [r EXCEPT !.raised = "ValueError"]

(***************************************************************************)
(* start(), statement by statement.  pc names the statement to run next.   *)
(***************************************************************************)
Truthy(str) == Len(str) > 0

\* init_client without the test of bot_token
init_client_no_token ==
  IF ~Truthy(config["api_id"]) THEN "API_ID"
  ELSE IF ~Truthy(config["api_hash"]) THEN "API_HASH"
  ELSE "none"

\* init_client: the first missing credential, "none" when the client is built
init_client ==
  IF ~Truthy(config["api_id"]) THEN "API_ID"
  ELSE IF ~Truthy(config["api_hash"]) THEN "API_HASH"
  ELSE IF ~Truthy(config["bot_token"]) THEN "BOT_TOKEN"
  ELSE "none"

Fail(e) == pc' = "failed" /\ error' = e

StartStep(p, q) == pc = p /\ pc' = q /\ error' = error

InitClient ==
  /\ pc = "init_client"
  /\ IF init_client = "none"
     THEN clientBuilt' = TRUE /\ pc' = "core_command" /\ error' = error
     ELSE clientBuilt' = clientBuilt /\ Fail(init_client)
  /\ lastOp' = Op("init_client", "none", init_client)
  /\ lastCalls' = <<>>
  /\ UNCHANGED <<ioVars, runVars, config, store, plugins, connectCalls, connected,
                 loaded, identity, sudo_users, start_time_set, events, dispatching,
                 listeners, handlers, table>>

\* self.client.add_handler(MessageHandler(...), group) of start()
AddCoreHandler(p, q, cat, group, ok) ==
  LET h == Handler(cat, NewHook(handlers, table, cat), group) IN
  /\ pc = p
  /\ handlers' = ClientAddHandler(handlers, h, ok)
  /\ IF ok THEN pc' = q /\ error' = error ELSE Fail("add_handler")
  /\ lastOp' = Op("add_core_handler", cat, IF ok THEN "none" ELSE "add_handler")
  /\ lastCalls' = <<Call("add_handler", h, ok)>>
  /\ UNCHANGED <<ioVars, runVars, config, store, plugins, connectCalls, connected,
                 loaded, identity, sudo_users, start_time_set, events, dispatching,
                 listeners, clientBuilt, table>>

\* start() installing the command handler in the default group
AddCommandHandlerDefaultGroup(ok) ==
  AddCoreHandler("core_command", "conversation", "core_command", DefaultGroup, ok)

AddCommandHandler(ok) ==
  AddCoreHandler("core_command", "conversation", "core_command", CommandGroup, ok)

AddConversationHandler(ok) ==
  AddCoreHandler("conversation", "load_plugins", "conversation", ConversationGroup, ok)

LoadAllPlugins(ps) ==
  /\ StartStep("load_plugins", "dispatch_load")
  /\ plugins' = ps
  /\ lastOp' = Op("load_all_plugins", "none", "none")
  /\ lastCalls' = <<>>
  /\ UNCHANGED <<ioVars, runVars, config, store, connectCalls, connected, loaded,
                 identity, sudo_users, start_time_set, events, dispatching, regVars>>

\* await self.dispatch_event(e): the call is made ...
DispatchBegin(p, q, e) ==
  /\ StartStep(p, q)
  /\ events' = Append(events, e)
  /\ dispatching' = e
  /\ lastOp' = Op("dispatch_event", e, "none")
  /\ lastCalls' = <<>>
  /\ UNCHANGED <<ioVars, runVars, config, store, plugins, connectCalls, connected,
                 loaded, identity, sudo_users, start_time_set, regVars>>

\* ... and start() resumes when it has completed.
DispatchEnd(p, q, e) ==
  /\ StartStep(p, q)
  /\ dispatching = e
  /\ dispatching' = "none"
  /\ lastOp' = Op("dispatch_done", e, "none")
  /\ lastCalls' = <<>>
  /\ UNCHANGED <<ioVars, runVars, config, store, plugins, connectCalls, connected,
                 loaded, identity, sudo_users, start_time_set, events, regVars>>

DispatchLoad == DispatchBegin("dispatch_load", "await_load", "load")
LoadDispatched == DispatchEnd("await_load", "set_loaded", "load")

SetLoaded ==
  /\ StartStep("set_loaded", "check_plugins")
  /\ loaded' = TRUE
  /\ lastOp' = Op("set_loaded", "none", "none")
  /\ lastCalls' = <<>>
  /\ UNCHANGED <<ioVars, runVars, config, store, plugins, connectCalls, connected,
                 identity, sudo_users, start_time_set, events, dispatching, regVars>>

\* The check of the mandatory plugins without the test of GoogleDrive
MissingPluginAria2Only(ps) == IF "Aria2" \notin ps THEN "Aria2" ELSE "none"

\* The mandatory plugin start() finds missing, "none" when both are loaded
MissingPlugin(ps) ==
  IF "Aria2" \notin ps THEN "Aria2"
  ELSE IF "GoogleDrive" \notin ps THEN "GoogleDrive"
  ELSE "none"

\* The check of the mandatory plugins clearing self.loaded when it fails
CheckPluginsResetting ==
  /\ pc = "check_plugins"
  /\ IF MissingPlugin(plugins) = "none"
     THEN pc' = "connect" /\ error' = error
     ELSE Fail(MissingPlugin(plugins))
  /\ loaded' = (MissingPlugin(plugins) = "none")
  /\ lastOp' = Op("check_plugins", "none", MissingPlugin(plugins))
  /\ lastCalls' = <<>>
  /\ UNCHANGED <<ioVars, runVars, config, store, plugins, connectCalls, connected,
                 identity, sudo_users, start_time_set, events, dispatching, regVars>>

CheckPlugins ==
  /\ pc = "check_plugins"
  /\ IF MissingPlugin(plugins) = "none"
     THEN pc' = "connect" /\ error' = error
     ELSE Fail(MissingPlugin(plugins))
  /\ lastOp' = Op("check_plugins", "none", MissingPlugin(plugins))
  /\ lastCalls' = <<>>
  /\ UNCHANGED <<ioVars, runVars, config, store, plugins, connectCalls, connected, loaded,
                 identity, sudo_users, start_time_set, events, dispatching, regVars>>

\* await self.client.start(): it returns, or raises AttributeError or another error
Connect(outcome) ==
  /\ pc = "connect"
  /\ connectCalls' = connectCalls + 1
  /\ connected' = (outcome = "none")
  /\ IF outcome = "none" THEN pc' = "get_me" /\ error' = error ELSE Fail(outcome)
  /\ lastOp' = Op("client_start", "none", outcome)
  /\ lastCalls' = <<>>
  /\ UNCHANGED <<ioVars, runVars, config, store, plugins, loaded, identity, sudo_users,
                 start_time_set, events, dispatching, regVars>>

\* user = await self.client.get_me(), the isinstance check, uid and owner
GetMe(isUser) ==
  /\ pc = "get_me"
  /\ identity' = isUser
  /\ IF isUser THEN pc' = "sudoers" /\ error' = error ELSE Fail("TypeError")
  /\ lastOp' = Op("get_me", "none", IF isUser THEN "none" ELSE "TypeError")
  /\ lastCalls' = <<>>
  /\ UNCHANGED <<ioVars, runVars, config, store, plugins, connectCalls, connected, loaded,
                 sudo_users, start_time_set, events, dispatching, regVars>>

\* async for user in db.find(): self.sudo_users.add(user["_id"])
FetchSudoer(u) ==
  /\ StartStep("sudoers", "sudoers")
  /\ u \in store \ sudo_users
  /\ sudo_users' = sudo_users \cup {u}
  /\ lastOp' = Op("sudoer", "none", "none")
  /\ lastCalls' = <<>>
  /\ UNCHANGED <<ioVars, runVars, config, store, plugins, connectCalls, connected, loaded,
                 identity, start_time_set, events, dispatching, regVars>>

\* start() leaving the loop over the store before the cursor is exhausted
SudoersDoneEarly ==
  /\ StartStep("sudoers", "dispatch_start")
  /\ start_time_set' = TRUE
  /\ lastOp' = Op("start_time", "none", "none")
  /\ lastCalls' = <<>>
  /\ UNCHANGED <<ioVars, runVars, config, store, plugins, connectCalls, connected, loaded,
                 identity, sudo_users, events, dispatching, regVars>>

\* The cursor is exhausted: self.start_time_us = util.time.usec()
SudoersDone ==
  /\ StartStep("sudoers", "dispatch_start")
  /\ store \subseteq sudo_users
  /\ start_time_set' = TRUE
  /\ lastOp' = Op("start_time", "none", "none")
  /\ lastCalls' = <<>>
  /\ UNCHANGED <<ioVars, runVars, config, store, plugins, connectCalls, connected, loaded,
                 identity, sudo_users, events, dispatching, regVars>>

\* start() dispatching "started" where it dispatches "start"
DispatchStartSwapped == DispatchBegin("dispatch_start", "await_start", "started")

DispatchStart == DispatchBegin("dispatch_start", "await_start", "start")
StartDispatched == DispatchEnd("await_start", "dispatch_started", "start")
DispatchStarted == DispatchBegin("dispatch_started", "await_started", "started")
StartedDispatched == DispatchEnd("await_started", "ready", "started")

(***************************************************************************)
(* run(): start(), then idle(), then the teardown, whatever happened.      *)
(* pc continues past start():                                              *)
(*   "failed"    start() raised error, run() is at its except clause       *)
(*   "ready"     start() returned, run() is about to call idle()           *)
(*   "idling"    idle() is in its sleep loop                               *)
(*   "stop"      the outer finally is about to call self.stop()            *)
(*   "loop_stop" the inner finally is about to call self.loop.stop()       *)
(*   "done"      run() has ended, raising pending unless it is "none"      *)
(***************************************************************************)
StartPoints == {"init_client", "core_command", "conversation", "load_plugins",
                "dispatch_load", "await_load", "set_loaded", "check_plugins",
                "connect", "get_me", "sudoers", "dispatch_start", "await_start",
                "dispatch_started", "await_started"}

Signals == {"SIGINT", "SIGTERM", "SIGABRT"}

\* Nothing of run() has happened.
NotRun ==
  /\ idled = FALSE
  /\ disconnect = FALSE
  /\ pending = "none"
  /\ stopCalls = 0
  /\ stopped = FALSE
  /\ loopStops = 0

\* A KeyboardInterrupt is raised in start(), wherever it is; a dispatch it
\* was awaiting is abandoned.
Interrupt ==
  /\ pc \in StartPoints
  /\ Fail("KeyboardInterrupt")
  /\ dispatching' = "none"
  /\ lastOp' = Op("interrupt", "none", "KeyboardInterrupt")
  /\ lastCalls' = <<>>
  /\ UNCHANGED <<ioVars, runVars, regVars, config, store, plugins, connectCalls,
                 connected, loaded, identity, sudo_users, start_time_set, events>>

\* the except clause of run() letting the interrupt through
RunCatchReraise ==
  /\ pc = "failed"
  /\ pc' = "stop"
  /\ pending' = error
  /\ lastOp' = Op("run_except", "none", error)
  /\ lastCalls' = <<>>
  /\ UNCHANGED <<ioVars, regVars, config, store, plugins, error, connectCalls,
                 connected, loaded, identity, sudo_users, start_time_set, events,
                 dispatching, idled, disconnect, stopCalls, stopped, loopStops>>

\* start() raised: a KeyboardInterrupt is caught and run() returns, anything
\* else propagates; either way the finally clause runs next.
RunCatch ==
  /\ pc = "failed"
  /\ pc' = "stop"
  /\ pending' = IF error = "KeyboardInterrupt" THEN "none" ELSE error
  /\ lastOp' = Op("run_except", "none", IF error = "KeyboardInterrupt" THEN "none" ELSE error)
  /\ lastCalls' = <<>>
  /\ UNCHANGED <<ioVars, regVars, config, store, plugins, error, connectCalls,
                 connected, loaded, identity, sudo_users, start_time_set, events,
                 dispatching, idled, disconnect, stopCalls, stopped, loopStops>>

\* idle() up to its loop: the flag is cleared and the handler installed for
\* the three signals.
IdleEnter ==
  /\ pc = "ready"
  /\ pc' = "idling"
  /\ idled' = TRUE
  /\ disconnect' = FALSE
  /\ lastOp' = Op("idle", "none", "none")
  /\ lastCalls' = <<>>
  /\ UNCHANGED <<ioVars, regVars, config, store, plugins, error, connectCalls,
                 connected, loaded, identity, sudo_users, start_time_set, events,
                 dispatching, pending, stopCalls, stopped, loopStops>>

\* signal_handler: one of the three signals is delivered while idle() sleeps.
Signal(sig) ==
  /\ pc = "idling"
  /\ disconnect' = TRUE
  /\ lastOp' = Op("signal", sig, "none")
  /\ lastCalls' = <<>>
  /\ UNCHANGED <<ioVars, regVars, lifeVars, idled, pending, stopCalls, stopped,
                 loopStops>>

\* the loop of idle() leaving whatever the flag is
IdlePollAlways ==
  /\ pc = "idling"
  /\ pc' = "stop"
  /\ lastOp' = Op("idle_poll", "none", "none")
  /\ lastCalls' = <<>>
  /\ UNCHANGED <<ioVars, regVars, config, store, plugins, error, connectCalls,
                 connected, loaded, identity, sudo_users, start_time_set, events,
                 dispatching, runVars>>

\* The sleep of idle() is over and the loop tests the flag: idle() returns
\* with it set and sleeps again otherwise.
IdlePoll ==
  /\ pc = "idling"
  /\ pc' = IF disconnect THEN "stop" ELSE "idling"
  /\ lastOp' = Op("idle_poll", "none", "none")
  /\ lastCalls' = <<>>
  /\ UNCHANGED <<ioVars, regVars, config, store, plugins, error, connectCalls,
                 connected, loaded, identity, sudo_users, start_time_set, events,
                 dispatching, runVars>>

\* The sleep of idle() raises (the task is cancelled): idle() does not
\* return, the exception propagates through run().
IdleFail ==
  /\ pc = "idling"
  /\ pc' = "stop"
  /\ pending' = "CancelledError"
  /\ lastOp' = Op("idle_poll", "none", "CancelledError")
  /\ lastCalls' = <<>>
  /\ UNCHANGED <<ioVars, regVars, config, store, plugins, error, connectCalls,
                 connected, loaded, identity, sudo_users, start_time_set, events,
                 dispatching, idled, disconnect, stopCalls, stopped, loopStops>>

\* The exception a finally clause leaves propagating: the one its body
\* raised if it raised, the one that was propagating otherwise.
Finally(before, raised) == IF raised # "none" THEN raised ELSE before

\* a teardown whose loop.stop() is skipped when stop() raises
StopStepNoFinally(ok) ==
  /\ pc = "stop"
  /\ pc' = IF ok THEN "loop_stop" ELSE "done"
  /\ stopCalls' = stopCalls + 1
  /\ stopped' = ok
  /\ pending' = Finally(pending, IF ok THEN "none" ELSE "StopError")
  /\ lastOp' = Op("stop", "none", IF ok THEN "none" ELSE "StopError")
  /\ lastCalls' = <<>>
  /\ UNCHANGED <<ioVars, regVars, config, store, plugins, error, connectCalls,
                 connected, loaded, identity, sudo_users, start_time_set, events,
                 dispatching, idled, disconnect, loopStops>>

\* await self.stop() in the outer finally: the disconnect is attempted, and
\* it returns (ok) or raises; the inner finally runs next either way.
StopStep(ok) ==
  /\ pc = "stop"
  /\ pc' = "loop_stop"
  /\ stopCalls' = stopCalls + 1
  /\ stopped' = ok
  /\ pending' = Finally(pending, IF ok THEN "none" ELSE "StopError")
  /\ lastOp' = Op("stop", "none", IF ok THEN "none" ELSE "StopError")
  /\ lastCalls' = <<>>
  /\ UNCHANGED <<ioVars, regVars, config, store, plugins, error, connectCalls,
                 connected, loaded, identity, sudo_users, start_time_set, events,
                 dispatching, idled, disconnect, loopStops>>

\* self.loop.stop() in the inner finally; run() ends.
LoopStop ==
  /\ pc = "loop_stop"
  /\ pc' = "done"
  /\ loopStops' = loopStops + 1
  /\ lastOp' = Op("loop_stop", "none", "none")
  /\ lastCalls' = <<>>
  /\ UNCHANGED <<ioVars, regVars, config, store, plugins, error, connectCalls,
                 connected, loaded, identity, sudo_users, start_time_set, events,
                 dispatching, idled, disconnect, pending, stopCalls, stopped>>

(***************************************************************************)
(* The specification of start-up and the handler table.                    *)
(***************************************************************************)
CredValues == {<<>>, <<"a">>}
PluginNames == {"Aria2", "GoogleDrive"}
StoreIds == {7, 42}

\* __init__, with the environment the run is going to meet
Init ==
  /\ config \in {cf \in [ConfigKeys -> CredValues] : Truthy(cf["db_uri"])}
  /\ store \in {{}, StoreIds}
  /\ plugins = {}
  /\ listeners = [c \in DynCategories |-> 0]
  /\ pc = "init_client"
  /\ error = "none"
  /\ clientBuilt = FALSE
  /\ handlers = {}
  /\ connectCalls = 0
  /\ connected = FALSE
  /\ table = << >>
  /\ loaded = FALSE
  /\ identity = FALSE
  /\ sudo_users = {}
  /\ start_time_set = FALSE
  /\ events = <<>>
  /\ dispatching = "none"
  /\ lastOp = NoOp
  /\ lastCalls = <<>>
  /\ NotRun
  /\ redactIn = <<>>
  /\ redactOut = <<>>
  /\ redacted = FALSE
  /\ messages = <<>>
  /\ lastRespond = NoRespond

Next ==
  \/ InitClient
  \/ \E ok \in BOOLEAN : AddCommandHandler(ok)
  \/ \E ok \in BOOLEAN : AddConversationHandler(ok)
  \/ \E ps \in SUBSET PluginNames : LoadAllPlugins(ps)
  \/ DispatchLoad
  \/ LoadDispatched
  \/ SetLoaded
  \/ CheckPlugins
  \/ \E o \in {"none", "AttributeError", "ConnectionError"} : Connect(o)
  \/ \E u \in BOOLEAN : GetMe(u)
  \/ \E u \in StoreIds : FetchSudoer(u)
  \/ SudoersDone
  \/ DispatchStart
  \/ StartDispatched
  \/ DispatchStarted
  \/ StartedDispatched
  \/ Interrupt
  \/ RunCatch
  \/ IdleEnter
  \/ \E sig \in Signals : Signal(sig)
  \/ IdlePoll
  \/ IdleFail
  \/ \E ok \in BOOLEAN : StopStep(ok)
  \/ LoopStop
  \/ \E c \in DynCategories : RegisterListener(c)
  \/ \E c \in DynCategories : UnregisterListener(c)
  \/ \E c \in DynCategories, ok \in BOOLEAN : UpdatePluginEvent(c, ok)
  \/ \E f \in DynCategories \cup {"none"} : UpdatePluginEvents(f)

Spec == Init /\ [][Next]_vars

\* The scheduler is fair to run(): the sleep of idle() ends and the loop tests
\* its flag again, and the awaits and calls of the finally clauses complete.
SpecFair ==
  /\ Spec
  /\ WF_vars(IdlePoll)
  /\ WF_vars(\E ok \in BOOLEAN : StopStep(ok))
  /\ WF_vars(LoopStop)

(***************************************************************************)
(* Properties of the handler table.                                        *)
(***************************************************************************)
CallsFor(calls, c, op) == {i \in 1..Len(calls) : calls[i].cat = c /\ calls[i].op = op}

HooksOf(c) == {h \in handlers : h.cat = c}

MayInstall(c) == c \notin DOMAIN table /\ listeners[c] > 0
MayRemove(c) == c \in DOMAIN table /\ listeners[c] = 0

\* A step's client calls for category c, against the state it started from.
ReconcileStep(c) ==
  /\ CallsFor(lastCalls', c, "add_handler") # {} => MayInstall(c)
  /\ CallsFor(lastCalls', c, "remove_handler") # {} => MayRemove(c)
  /\ Cardinality(CallsFor(lastCalls', c, "add_handler")) +
     Cardinality(CallsFor(lastCalls', c, "remove_handler")) <= 1
  /\ (~MayInstall(c) /\ ~MayRemove(c)) =>
       /\ CallsFor(lastCalls', c, "add_handler") = {}
       /\ CallsFor(lastCalls', c, "remove_handler") = {}
       /\ (c \in DOMAIN table') = (c \in DOMAIN table)
       /\ c \in DOMAIN table => table'[c] = table[c]

\* C1: for every dynamic category, a step issues add_handler only when the
\* category is absent from the table and has listeners, remove_handler only
\* when it is in the table and has no listeners, and otherwise issues no
\* client call and leaves the category's binding as it was; the client never
\* holds more than one hook of a category.
C1_Reconcile ==
  /\ [][\A c \in DynCategories : ReconcileStep(c)]_vars
  /\ [](\A c \in AllCategories : Cardinality(HooksOf(c)) <= 1)

\* The second of two reconciles with listeners present is a no-op.
C1_Witness ==
  /\ lastOp = Op("update_plugin_event", "message", "none")
  /\ lastCalls = <<>>
  /\ listeners["message"] = 2
  /\ "message" \in DOMAIN table
  /\ Cardinality(HooksOf("message")) = 1

(***************************************************************************)
(* Properties of the handler a reconcile removes.                          *)
(***************************************************************************)
CallHandler(call) == Handler(call.cat, call.hook, call.group)

\* The remove_handler calls of a step for category c: each passes the hook
\* and group of the one handler of c the client holds, which is the binding
\* of the table; a call that returns leaves c without handler and binding.
RemoveStep(c) ==
  \A i \in CallsFor(lastCalls', c, "remove_handler") :
    /\ HooksOf(c) = {CallHandler(lastCalls'[i])}
    /\ c \in DOMAIN table /\ table[c] = CallHandler(lastCalls'[i])
    /\ lastCalls'[i].ok => c \notin DOMAIN table' /\ HooksOf(c)' = {}
    /\ lastOp'.op = "update_plugin_event" => Len(lastCalls') = 1

\* The add_handler calls of a step for category c: a call that returns makes
\* its hook and group the one handler of c and the binding of the table.
InstallStep(c) ==
  \A i \in CallsFor(lastCalls', c, "add_handler") :
    /\ lastCalls'[i].ok =>
         /\ HooksOf(c)' = {CallHandler(lastCalls'[i])}
         /\ c \in DOMAIN table' /\ table'[c] = CallHandler(lastCalls'[i])
    /\ lastOp'.op = "update_plugin_event" => Len(lastCalls') = 1

\* C14: a reconcile that removes a category's hook passes remove_handler the
\* hook and group that the category's latest install passed to add_handler,
\* and erases the binding; an install followed by a remove is one add_handler
\* call and one remove_handler call on the same hook.
C14_RemoveInstalledPair ==
  [][\A c \in DynCategories : RemoveStep(c) /\ InstallStep(c)]_vars

\* The listener on "message" is gone and the reconcile has removed the first
\* hook the category was given, with one call.
C14_Witness ==
  /\ lastOp = Op("update_plugin_event", "message", "none")
  /\ lastCalls = <<Call("remove_handler", Handler("message", 1, DefaultGroup), TRUE)>>
  /\ listeners["message"] = 0
  /\ "message" \notin DOMAIN table /\ HooksOf("message") = {}

(***************************************************************************)
(* Atomicity of update_plugin_event.                                       *)
(***************************************************************************)
\* What a task sees of category c: whether the client holds a hook of it and
\* whether the table binds it.
View(c) == [installed |-> HooksOf(c) # {}, bound |-> c \in DOMAIN table]

\* A step is a whole reconcile or none of it: the hook of c and its binding
\* change together, on the listener count of the state the step starts
\* from, and no listener count changes in that step.
AtomicStep(c) ==
  /\ View(c)' # View(c) =>
       /\ View(c).installed = View(c).bound
       /\ View(c)'.installed = View(c)'.bound
       /\ View(c)'.installed = (listeners[c] > 0)
       /\ listeners' = listeners
       /\ lastOp'.op \in {"update_plugin_event", "update_plugin_events"}
  /\ listeners'[c] # listeners[c] => View(c)' = View(c) /\ lastCalls' = <<>>
  /\ Cardinality(HooksOf(c)') <= 1

\* C18: update_plugin_event runs as one step of the cooperative schedule:
\* wherever tasks that add or remove listeners and reconcile are interleaved,
\* a category's hook is on the client exactly when the table binds it, and
\* no step adds a second hook of a category.
C18_AtomicReconcile ==
  /\ [][\A c \in DynCategories : AtomicStep(c)]_vars
  /\ [](\A c \in DynCategories : View(c).installed = View(c).bound)

\* While start() awaits the "start" dispatch, the listener of "message" has
\* gone and "message" is still to be reconciled; a reconcile of
\* "inline_query" by another task has just removed that hook.
C18_Witness ==
  /\ pc = "await_start"
  /\ lastOp = Op("update_plugin_event", "inline_query", "none")
  /\ Len(lastCalls) = 1 /\ lastCalls[1].op = "remove_handler"
  /\ listeners["message"] = 0
  /\ View("message") = [installed |-> TRUE, bound |-> TRUE]
  /\ View("inline_query") = [installed |-> FALSE, bound |-> FALSE]

MissingCredentials == {k \in RequiredKeys : ~Truthy(config[k])}

ErrorKey(e) ==
  IF e = "API_ID" THEN "api_id" ELSE IF e = "API_HASH" THEN "api_hash" ELSE "bot_token"

\* C8: with a required credential empty, start() does not get past
\* init_client: it fails with the error naming an empty credential, the
\* client is never built, no handler is installed and client.start() is
\* never called.
C8_MissingCredential ==
  MissingCredentials # {} =>
    /\ pc \in {"init_client", "failed", "stop", "loop_stop", "done"}
    /\ ~clientBuilt /\ handlers = {} /\ connectCalls = 0 /\ ~connected
    /\ pc # "init_client" /\ error # "KeyboardInterrupt" =>
         /\ error \in {"API_ID", "API_HASH", "BOT_TOKEN"}
         /\ ErrorKey(error) \in MissingCredentials

\* Only bot_token is empty, and start() has failed on it.
C8_Witness ==
  /\ MissingCredentials = {"bot_token"}
  /\ pc = "failed" /\ error = "BOT_TOKEN"
  /\ lastOp.op = "init_client"

AfterPluginCheck == {"connect", "get_me", "sudoers", "dispatch_start", "await_start",
                     "dispatch_started", "await_started", "ready", "idling"}

\* C9: start() gets past the check of the mandatory plugins only with both
\* loaded; with one missing it fails at the check, after the "load" dispatch
\* has completed, and client.start() is never called.
C9_MissingPlugin ==
  /\ ~(MandatoryPlugins \subseteq plugins) => pc \notin AfterPluginCheck /\ connectCalls = 0
  /\ lastOp.op = "check_plugins" /\ ~(MandatoryPlugins \subseteq plugins) =>
       /\ pc = "failed" /\ error \in MandatoryPlugins \ plugins
       /\ events = <<"load">> /\ dispatching = "none"
  /\ error \in MandatoryPlugins =>
       /\ error \notin plugins
       /\ events = <<"load">> /\ dispatching = "none"
       /\ connectCalls = 0 /\ ~connected

\* Aria2 is loaded, GoogleDrive is not, and start() has failed on it.
C9_Witness ==
  /\ pc = "failed" /\ error = "GoogleDrive"
  /\ plugins = {"Aria2"}
  /\ events = <<"load">>

LifecycleEvents == <<"load", "start", "started">>

IsPrefix(a, b) == Len(a) <= Len(b) /\ \A i \in 1..Len(a) : a[i] = b[i]

\* C10: the lifecycle events dispatched so far are a prefix of load, start,
\* started, and all three once start() has returned; start() runs no
\* statement while a dispatch is in flight; "load" is dispatched and complete
\* before client.start() is called, and "start" is dispatched only with the
\* identity resolved and every administrator of the store loaded.
C10_LifecycleOrder ==
  /\ IsPrefix(events, LifecycleEvents)
  /\ pc = "ready" => events = LifecycleEvents /\ dispatching = "none"
  /\ dispatching # "none" =>
       /\ pc \in {"await_load", "await_start", "await_started"}
       /\ events[Len(events)] = dispatching
  /\ pc \in {"await_load", "await_start", "await_started"} => dispatching # "none"
  /\ connectCalls > 0 => Len(events) >= 1 /\ dispatching # "load"
  /\ Len(events) >= 2 => connected /\ identity /\ store \subseteq sudo_users

\* A start-up that succeeded, with the three events dispatched.
C10_Witness ==
  /\ pc = "ready" /\ error = "none"
  /\ events = <<"load", "start", "started">>
  /\ connected /\ sudo_users = StoreIds

(***************************************************************************)
(* Properties of run().                                                    *)
(***************************************************************************)
Interrupted == error = "KeyboardInterrupt"

\* C11, as stated: after an interrupt during start(), run() returns cleanly
\* without idling, the disconnect was never attempted and the client was
\* never connected.
C11_NoTeardown ==
  Interrupted /\ pc = "done" =>
    pending = "none" /\ ~idled /\ stopCalls = 0 /\ ~connected

\* C11: an interrupt during start() is caught by run() and never propagated,
\* idle() is not entered, and the teardown still runs: stop() is attempted
\* once, then loop.stop(), and run() returns cleanly when stop() returned.
C11_InterruptCaught ==
  Interrupted =>
    /\ pc \in {"failed", "stop", "loop_stop", "done"}
    /\ ~idled
    /\ pending # "KeyboardInterrupt"
    /\ pc \in {"failed", "stop"} => pending = "none" /\ stopCalls = 0
    /\ pc = "done" =>
         /\ stopCalls = 1 /\ loopStops = 1
         /\ stopped => pending = "none"

\* The interrupt came after client.start() returned; run() has returned
\* cleanly, the disconnect made.
C11_Witness ==
  /\ Interrupted /\ pc = "done"
  /\ connected /\ stopped /\ stopCalls = 1
  /\ pending = "none"

\* C12: however run() ends (idle() returned, start() was interrupted or
\* failed, idle() raised), stop() has been attempted exactly once and
\* loop.stop() executed exactly once, also when stop() raised, and loop.stop()
\* is the last step of run(): it is never made before stop() was attempted
\* and nothing follows it.
C12_Teardown ==
  /\ stopCalls <= 1 /\ loopStops <= 1
  /\ pc = "done" => stopCalls = 1 /\ loopStops = 1 /\ lastOp.op = "loop_stop"
  /\ loopStops > 0 => pc = "done" /\ stopCalls = 1
  /\ stopCalls > 0 => pc \in {"loop_stop", "done"}
  /\ pc = "loop_stop" => stopCalls = 1

\* idle() raised and then stop() raised as well; loop.stop() was still made.
C12_Witness ==
  /\ pc = "done" /\ idled
  /\ stopCalls = 1 /\ ~stopped /\ pending = "StopError"
  /\ loopStops = 1

(***************************************************************************)
(* Properties of the administrator set.                                    *)
(***************************************************************************)
Dispatched(e) == \E i \in 1..Len(events) : events[i] = e

\* C13: the administrator set only ever holds identities of the store; from
\* the dispatch of "start" on it holds all of them; and when start() has
\* returned, loaded is true and, for a store yielding 7 and 42, the set is
\* exactly {7, 42}.
C13_AdminsLoaded ==
  /\ sudo_users \subseteq store
  /\ Dispatched("start") => sudo_users = store
  /\ pc \in {"ready", "idling"} =>
       /\ loaded /\ sudo_users = store
       /\ store = StoreIds => sudo_users = {7, 42}

\* start() has returned with the credentials present, both mandatory plugins
\* loaded and the store yielding 7 and 42.
C13_Witness ==
  /\ pc = "ready" /\ lastOp = Op("dispatch_done", "started", "none")
  /\ MissingCredentials = {} /\ MandatoryPlugins \subseteq plugins
  /\ store = {7, 42} /\ sudo_users = {7, 42} /\ loaded

\* start() raised something other than an interrupt.
StartFailed == error \notin {"none", "KeyboardInterrupt"}

\* C15: when start() raised a failure other than an interrupt, run() ends
\* raising that same failure, whether stop() returned or raised.
C15_StartFailureKept == pc = "done" /\ StartFailed => pending = error

(***************************************************************************)
(* Properties of the core handlers.                                        *)
(***************************************************************************)
\* The positions of start() and run() past the two add_handler calls of
\* start().
PastCoreHandlers == {"load_plugins", "dispatch_load", "await_load", "set_loaded",
                     "check_plugins", "connect", "get_me", "sudoers",
                     "dispatch_start", "await_start", "dispatch_started",
                     "await_started", "ready", "idling"}

DynamicHandlers == {h \in handlers : h.cat \in DynCategories}

\* The client evaluates the groups in ascending order and, within a group,
\* the handlers in the order they were added: a is evaluated before every
\* handler of a group that is not lower and was added while a was installed.
GroupNotAfter(a, b) == a.group <= b.group

\* The core handlers are installed once and stay: a step changes the
\* handlers of a core category only by the one install of start(), and a step
\* installs a dynamic handler only with both core handlers installed.
CoreStep ==
  /\ \A c \in CoreCategories :
       /\ HooksOf(c) # {} => HooksOf(c)' = HooksOf(c)
       /\ HooksOf(c)' # HooksOf(c) => lastOp' = Op("add_core_handler", c, "none")
       /\ CallsFor(lastCalls', c, "add_handler") # {} =>
            /\ lastOp'.op = "add_core_handler"
            /\ plugins = {} /\ events = <<>>
  /\ \A c \in DynCategories :
       CallsFor(lastCalls', c, "add_handler") # {} =>
         \A k \in CoreCategories : HooksOf(k) # {}

IdleStep ==
  /\ lastOp'.op = "signal" =>
       /\ lastOp'.name \in Signals /\ pc = "idling" /\ disconnect'
       /\ UNCHANGED <<lifeVars, regVars, ioVars, idled, pending, stopCalls,
                      stopped, loopStops>>
  /\ disconnect' /\ ~disconnect => lastOp'.op = "signal"
  /\ pc = "idling" /\ pc' # "idling" =>
       /\ pc' = "stop" /\ stopCalls' = 0 /\ loopStops' = 0
       /\ \/ disconnect /\ lastOp' = Op("idle_poll", "none", "none") /\ pending' = "none"
          \/ lastOp'.raised # "none" /\ pending' = lastOp'.raised
  /\ stopCalls' # stopCalls => pc = "stop" /\ loopStops = 0 /\ ~stopped
  /\ loopStops' # loopStops => stopCalls = 1 /\ pc' = "done"

FailuresAfterLoaded == MandatoryPlugins \cup {"AttributeError", "ConnectionError", "TypeError"}

\* C20: self.loaded is true only with the client built, both core handlers
\* installed and the "load" dispatch complete; it is true from the statement
\* before the check of the mandatory plugins on and is never set back, so a
\* start() that fails on a missing plugin, on client.start() or on get_me(),
\* and the teardown that follows, leave it true.
C20_Loaded ==
  /\ [][loaded => loaded']_vars
  /\ [](loaded =>
          /\ clientBuilt
          /\ \A c \in CoreCategories : HooksOf(c) # {}
          /\ Dispatched("load") /\ dispatching # "load"
          /\ pc \notin {"init_client", "core_command", "conversation", "load_plugins",
                        "dispatch_load", "await_load", "set_loaded"})
  /\ [](pc \in AfterPluginCheck \cup {"check_plugins"} => loaded)
  /\ [](error \in FailuresAfterLoaded => loaded /\ ~Dispatched("started"))

\* start() failed on a missing mandatory plugin, run() has made its teardown,
\* and self.loaded is still true.
C20_Witness ==
  /\ pc = "done" /\ error = "Aria2"
  /\ loaded /\ connectCalls = 0 /\ ~Dispatched("start")
  /\ stopCalls = 1 /\ loopStops = 1

(***************************************************************************)
(* The specification of redact_message: any configuration of the secrets   *)
(* and any text, then the call.                                            *)
(***************************************************************************)
MaxTextLen == 3
TextAlphabet == {"a", "b", "D"}
SecretValues == {<<>>, <<"a">>, <<"b">>, <<"a", "b">>, <<"D">>}

Texts == UNION {[1..n -> TextAlphabet] : n \in 0..MaxTextLen}

\* The configurations tried: at most one secret is empty or made of
\* characters of the placeholder (each of these multiplies the length of the
\* text when it is replaced).
RedactConfigs ==
  {cf \in [ConfigKeys -> SecretValues] :
     \A j, k \in ConfigKeys :
       cf[j] \in {<<>>, <<"D">>} /\ cf[k] \in {<<>>, <<"D">>} => j = k}

Constructed ==
  /\ plugins = {}
  /\ store = {}
  /\ listeners = [c \in DynCategories |-> 0]
  /\ pc = "init_client"
  /\ error = "none"
  /\ clientBuilt = FALSE
  /\ handlers = {}
  /\ connectCalls = 0
  /\ connected = FALSE
  /\ table = << >>
  /\ loaded = FALSE
  /\ identity = FALSE
  /\ sudo_users = {}
  /\ start_time_set = FALSE
  /\ events = <<>>
  /\ dispatching = "none"
  /\ lastOp = NoOp
  /\ lastCalls = <<>>
  /\ NotRun

InitRedact ==
  /\ Constructed
  /\ config \in RedactConfigs
  /\ redactIn \in Texts
  /\ redactOut = <<>>
  /\ redacted = FALSE
  /\ messages = <<>>
  /\ lastRespond = NoRespond

RedactMessage ==
  /\ ~redacted
  /\ redactOut' = redact_message(config, redactIn)
  /\ redacted' = TRUE
  /\ UNCHANGED <<lifeVars, regVars, opVars, runVars, redactIn, messages, lastRespond>>

NextRedact == RedactMessage

SpecRedact == InitRedact /\ [][NextRedact]_vars

(***************************************************************************)
(* Properties of redact_message.                                           *)
(***************************************************************************)
SecretsIn(text) == {k \in ConfigKeys : Len(config[k]) > 0 /\ Contains(text, config[k])}

Chars(str) == {str[i] : i \in 1..Len(str)}

\* No secret has a character of the placeholder.
PlaceholderFree == \A k \in ConfigKeys : Chars(config[k]) \cap Chars(Placeholder) = {}

RedactProperty ==
  /\ \A k \in SecretsIn(redactIn) :
       /\ ~Contains(redactOut, config[k])
       /\ Contains(redactOut, Placeholder)
  /\ (\A k \in ConfigKeys : ~Contains(redactIn, config[k])) => redactOut = redactIn

\* C6, as stated: whatever the secrets, the output has no occurrence of a
\* non-empty secret that occurs in the text and has the placeholder, and it
\* is the text when no secret occurs in the text.
C6_AnySecrets == redacted => RedactProperty

\* C6, amended: the same, for secrets that have no character of the
\* placeholder [REDACTED].
C6_Redacts == redacted /\ PlaceholderFree => RedactProperty

\* Two secrets occur in the text, one inside the other, and are redacted.
C6_Witness ==
  /\ redacted /\ PlaceholderFree
  /\ {"api_id", "api_hash"} \subseteq SecretsIn(redactIn)
  /\ config["api_id"] = <<"b">> /\ config["api_hash"] = <<"a", "b">>
  /\ Contains(redactOut, Placeholder)
  /\ redactOut # Placeholder

\* C7: with db_uri empty and no other secret in the text, redact_message
\* returns the text as it was.
C7_EmptySecretSkipped ==
  (/\ redacted
   /\ config["db_uri"] = <<>>
   /\ \A k \in ConfigKeys \ {"db_uri"} : ~Contains(redactIn, config[k]))
  => redactOut = redactIn

(***************************************************************************)
(* The specification of respond: any sequence of calls.                    *)
(***************************************************************************)
MaxMessages == 2
Modes == {"reply", "edit", "delete", "Edit"}
OriginalMessages == {101, 102}
RespondTexts == {<<"b">>, <<"a", "a">>}
RespondConfigs ==
  {[k \in ConfigKeys |-> <<"a">>],
   [k \in ConfigKeys |-> IF k = "db_uri" THEN <<"a", "a">> ELSE <<"D">>]}

InitRespond ==
  /\ Constructed
  /\ config \in RespondConfigs
  /\ redactIn = <<>>
  /\ redactOut = <<>>
  /\ redacted = FALSE
  /\ messages = <<>>
  /\ lastRespond = NoRespond

Respond(msg, text, mode, redact, response, ok) ==
  \E r \in {respond(messages, msg, text, mode, redact, response, ok)} :
  /\ Len(r.messages) <= MaxMessages
  /\ messages' = r.messages
  /\ lastRespond' = [msg |-> r.msg, text |-> r.text, mode |-> r.mode,
                     redact |-> r.redact, response |-> r.response,
                     before |-> r.before, calls |-> r.calls, result |-> r.result,
                     raised |-> r.raised]
  /\ UNCHANGED <<lifeVars, regVars, opVars, runVars, redactIn, redactOut, redacted>>

NextRespond ==
  \E msg \in OriginalMessages, text \in RespondTexts, mode \in Modes,
     redact \in BOOLEAN, response \in {None} \cup (1..Len(messages)), ok \in BOOLEAN :
    Respond(msg, text, mode, redact, response, ok)

SpecRespond == InitRespond /\ [][NextRespond]_vars

(***************************************************************************)
(* Properties of respond.                                                  *)
(***************************************************************************)
Replies == lastRespond.mode = "reply" \/ (lastRespond.mode = "edit" /\ lastRespond.response = None)
Edits == lastRespond.mode = "edit" /\ lastRespond.response # None

\* C4: mode "reply", and mode "edit" without a prior response, make one
\* call, a reply to the original message, and return the message it
\* created; mode "edit" with a prior response makes one call, an edit of that
\* response, creates no message and returns the edited one.
C4_DecisionTable ==
  /\ Replies =>
       /\ Len(lastRespond.calls) = 1
       /\ lastRespond.calls[1].op = "reply"
       /\ lastRespond.calls[1].target = lastRespond.msg
       /\ lastRespond.raised = "none" =>
            /\ Len(messages) = lastRespond.before + 1
            /\ lastRespond.result = Len(messages)
            /\ messages[lastRespond.result] = lastRespond.calls[1].text
       /\ lastRespond.raised # "none" =>
            Len(messages) = lastRespond.before /\ lastRespond.raised = "TransportError"
  /\ Edits =>
       /\ Len(lastRespond.calls) = 1
       /\ lastRespond.calls[1].op = "edit"
       /\ lastRespond.calls[1].target = lastRespond.response
       /\ Len(messages) = lastRespond.before
       /\ lastRespond.raised = "none" =>
            /\ lastRespond.result = lastRespond.response
            /\ messages[lastRespond.result] = lastRespond.calls[1].text
       /\ lastRespond.raised # "none" => lastRespond.raised = "TransportError"

\* A call with mode "reply" and a prior response has created a second message.
C4_Witness ==
  /\ lastRespond.mode = "reply" /\ lastRespond.response = 1
  /\ lastRespond.raised = "none"
  /\ Len(messages) = 2 /\ lastRespond.result = 2

\* C5: with a mode other than "reply" and "edit", respond raises ValueError,
\* makes no client call, returns nothing and leaves the messages alone.
C5_InvalidMode ==
  lastRespond.mode \notin {"reply", "edit", "none"} =>
    /\ lastRespond.raised = "ValueError"
    /\ lastRespond.calls = <<>>
    /\ lastRespond.result = None
    /\ Len(messages) = lastRespond.before

\* A call with an unknown mode and a prior response has raised.
C5_Witness ==
  /\ lastRespond.mode = "delete" /\ lastRespond.response = 1
  /\ lastRespond.raised = "ValueError"
  /\ Len(messages) = 1


\* The text respond handed to the client in its last call.
SentText == lastRespond.calls[1].text

\* C19: the text of every reply or edit is the truncation of the redacted
\* text when redact is set and of the text as given when it is not, so it is
\* never longer than the limit, also when the redaction made the text longer
\* than the limit.
C19_RedactThenTruncate ==
  lastRespond.calls # <<>> =>
    /\ Len(lastRespond.calls) = 1
    /\ Len(SentText) <= TransportLimit
    /\ lastRespond.redact =>
         SentText = Truncate(redact_message(config, lastRespond.text))
    /\ ~lastRespond.redact =>
         /\ SentText = Truncate(lastRespond.text)
         /\ Len(lastRespond.text) <= TransportLimit => SentText = lastRespond.text
    /\ \A i \in 1..Len(messages) : Len(messages[i]) <= TransportLimit

\* The redaction made a text within the limit longer than the limit, and the
\* text sent was cut to the limit.
C19_Witness ==
  /\ lastRespond.calls # <<>> /\ lastRespond.redact
  /\ Len(lastRespond.text) <= TransportLimit
  /\ Len(redact_message(config, lastRespond.text)) > TransportLimit
  /\ Len(SentText) = TransportLimit
  /\ lastRespond.raised = "none" /\ messages[lastRespond.result] = SentText

==========================================================================
